---- MODULE Spec2Model ----
(***************************************************************************)
(* Model of polaris_cdash.py: one invocation of main(), which parses the   *)
(* command line, collects host information and writes Build.xml, Test.xml  *)
(* and Done.xml into the working directory.                                *)
(*                                                                         *)
(* Text is modelled as a sequence of one-character strings, so that the    *)
(* substring test, the escape-sequence pattern, the glob pattern and the   *)
(* sort are computed character by character as the code computes them.     *)
(* The character U+001B is written "ESC".                                  *)
(***************************************************************************)
EXTENDS Integers, Sequences, FiniteSets, TLC

\* Longest text handed to strip_ansi_codes in the sanitization specification.
MaxLen == 4
\* Largest number of directory entries below the log directory.
MaxEntries == 3

VARIABLES
    argv,         \* the command line: option name -> value, for the options given
    fs,           \* the entries below the log directories at invocation time
    psutil,       \* how the optional psutil library behaves on this host
    cwd0,         \* the output files as they were when the process started
    cwd,          \* the output files in the working directory
    pc,           \* the statement of main() that runs next
    args,         \* the namespace returned by parse_args
    sys_info,     \* the mapping returned by get_system_info
    log_files,    \* generate_test_xml: the sorted list of discovered paths
    tests,        \* generate_test_xml: the list of test dictionaries
    test_list,    \* generate_test_xml: the texts of the TestList children
    stdout,       \* the lines printed so far
    exit_status,  \* "running", or the exit status of the process
    raised_in,    \* the function an uncaught exception came out of
    text,         \* sanitization: the text read from a file
    sanitized,    \* sanitization: strip_ansi_codes(text)
    resanitized   \* sanitization: strip_ansi_codes(sanitized)

vars == <<argv, fs, psutil, cwd0, cwd, pc, args, sys_info, log_files, tests,
          test_list, stdout, exit_status, raised_in, text, sanitized,
          resanitized>>

----------------------------------------------------------------------------
(* Characters and text                                                     *)

ESC == "ESC"

\* The printable ASCII characters in code-point order, U+0020 .. U+007E
\* (the double quote, the backslash and the backtick are written by name).
Ascii ==
    <<" ", "!", "DQUOTE", "#", "$", "%", "&", "'", "(", ")", "*", "+", ",", "-",
      ".", "/", "0", "1", "2", "3", "4", "5", "6", "7", "8", "9", ":", ";",
      "<", "=", ">", "?", "@", "A", "B", "C", "D", "E", "F", "G", "H", "I",
      "J", "K", "L", "M", "N", "O", "P", "Q", "R", "S", "T", "U", "V", "W",
      "X", "Y", "Z", "[", "BACKSLASH", "]", "^", "_", "BACKTICK", "a", "b", "c", "d", "e",
      "f", "g", "h", "i", "j", "k", "l", "m", "n", "o", "p", "q", "r", "s",
      "t", "u", "v", "w", "x", "y", "z", "{", "|", "}", "~">>

OrdTable ==
    [c \in {Ascii[i] : i \in 1..Len(Ascii)} |->
        31 + (CHOOSE i \in 1..Len(Ascii) : Ascii[i] = c)]

\* The code point of a character.
Ord(c) == IF c = ESC THEN 27 ELSE OrdTable[c]

\* Python's substring test, sub in s.
Contains(s, sub) ==
    \E i \in 0..(Len(s) - Len(sub)) :
        \A j \in 1..Len(sub) : s[i + j] = sub[j]

\* Python's s.endswith(suffix).
EndsWith(s, suffix) ==
    /\ Len(s) >= Len(suffix)
    /\ \A j \in 1..Len(suffix) : s[Len(s) - Len(suffix) + j] = suffix[j]

\* Python's str < str: lexicographic by code point.
RECURSIVE StrLess(_, _)
StrLess(s, t) ==
    IF t = <<>> THEN FALSE
    ELSE IF s = <<>> THEN TRUE
    ELSE IF Ord(Head(s)) # Ord(Head(t)) THEN Ord(Head(s)) < Ord(Head(t))
    ELSE StrLess(Tail(s), Tail(t))

----------------------------------------------------------------------------
(* strip_ansi_codes: \x1B(?:[@-Z\\-_]|\[[0-?]*[ -/]*[@-~])                 *)

\* [@-Z\\-_]
InFe(c) == (Ord(c) >= 64 /\ Ord(c) <= 90) \/ (Ord(c) >= 92 /\ Ord(c) <= 95)
\* [0-?]
InParam(c) == Ord(c) >= 48 /\ Ord(c) <= 63
\* [ -/]
InInter(c) == Ord(c) >= 32 /\ Ord(c) <= 47
\* [@-~]
InFinal(c) == Ord(c) >= 64 /\ Ord(c) <= 126

\* The first position at or after i whose character is not in the class.
RECURSIVE SkipParam(_, _)
SkipParam(t, i) ==
    IF i <= Len(t) /\ InParam(t[i]) THEN SkipParam(t, i + 1) ELSE i

RECURSIVE SkipInter(_, _)
SkipInter(t, i) ==
    IF i <= Len(t) /\ InInter(t[i]) THEN SkipInter(t, i + 1) ELSE i

\* The length of the pattern's match starting at position i, 0 if there is
\* none.  The three classes of the CSI branch are pairwise disjoint and "["
\* is not in the first branch's class, so backtracking out of the greedy
\* runs never finds a match the greedy runs miss.
MatchLen(t, i) ==
    IF i + 1 > Len(t) \/ t[i] # ESC THEN 0
    ELSE IF InFe(t[i + 1]) THEN 2
    ELSE IF t[i + 1] = "[" THEN
        LET k == SkipInter(t, SkipParam(t, i + 2))
        IN  IF k <= Len(t) /\ InFinal(t[k]) THEN k - i + 1 ELSE 0
    ELSE 0

\* re.search: the pattern matches somewhere in the text.
HasMatch(t) == \E i \in 1..Len(t) : MatchLen(t, i) > 0

\* re.sub('', text): one left-to-right pass over the text that drops every
\* match it meets and resumes right after it.
RECURSIVE SubFrom(_, _)
SubFrom(t, i) ==
    IF i > Len(t) THEN <<>>
    ELSE IF MatchLen(t, i) > 0 THEN SubFrom(t, i + MatchLen(t, i))
    ELSE <<t[i]>> \o SubFrom(t, i + 1)

\* A pass that stops substituting after the first match (count=1).
RECURSIVE SubFirstFrom(_, _)
SubFirstFrom(t, i) ==
    IF i > Len(t) THEN <<>>
    ELSE IF MatchLen(t, i) > 0 THEN SubSeq(t, i + MatchLen(t, i), Len(t))
    ELSE <<t[i]>> \o SubFirstFrom(t, i + 1)

strip_first_only(t) == SubFirstFrom(t, 1)

strip_ansi_codes(t) == SubFrom(t, 1)

----------------------------------------------------------------------------
(* Paths, the log directory and the working directory                      *)

Slash == <<"/">>
Quote == <<"'">>
LogExt == <<".", "l", "o", "g">>
ErrorWord == <<"E", "R", "R", "O", "R">>
DotSlash == <<".", "/">>
CatPrefix == <<"c", "a", "t", " ">>

\* os.path.join(d, n) for a non-empty d that does not end in a slash.
Join(d, n) == d \o Slash \o n

\* os.path.normpath, for paths without empty, "." or ".." segments: trailing
\* slashes are dropped.
RECURSIVE normpath(_)
normpath(p) ==
    IF Len(p) > 1 /\ p[Len(p)] = "/" THEN normpath(SubSeq(p, 1, Len(p) - 1))
    ELSE p

\* os.path.basename: what follows the last slash.
RECURSIVE basename(_)
basename(p) ==
    IF p = <<>> \/ p[Len(p)] = "/" THEN <<>>
    ELSE Append(basename(SubSeq(p, 1, Len(p) - 1)), p[Len(p)])

\* repr() of a path without quotes or backslashes.
Repr(p) == Quote \o p \o Quote

DirLogs == <<"d", "/", "l", "o", "g", "s">>
DirNone == <<"d", "/", "n", "o", "n", "e">>
DirSub == <<"d", "/", "l", "o", "g", "s", "/", "s", "u", "b">>

Name_a == <<"a", ".", "l", "o", "g">>
Name_b == <<"b", ".", "l", "o", "g">>
Name_ERROR == <<"E", "R", "R", "O", "R", ".", "l", "o", "g">>
Name_hidden == <<".", "h", ".", "l", "o", "g">>
Name_txt == <<"c", ".", "t", "x", "t">>

TextAnsiOk == <<"ESC", "[", "3", "1", "m", "O", "K", "ESC", "[", "0", "m">>
TextErrorBoom == <<"E", "R", "R", "O", "R", ":", " ", "b", "o", "o", "m">>
TextJoined == <<"E", "R", "R", "ESC", "[", "0", "m", "O", "R">>
TextEscE == <<"ESC", "E", "R", "R", "O", "R">>
TextLower == <<"e", "r", "r", "o", "r">>
TextGood == <<"a", "l", "l", " ", "g", "o", "o", "d">>

File(parent, name, err, content) ==
    [parent |-> parent, name |-> name, kind |-> "file", err |-> err,
     content |-> content]

Directory(parent, name) ==
    [parent |-> parent, name |-> name, kind |-> "dir", err |-> "none",
     content |-> <<>>]

\* The directory entries a host may hold: readable files, files whose open()
\* is refused (EACCES), a file whose read() fails (EIO), a directory, a hidden
\* file, a file with another extension and a file one level further down.
Candidates ==
    {File(DirLogs, Name_a, "none", c) :
        c \in {TextAnsiOk, TextErrorBoom, TextJoined, TextEscE}}
    \cup {File(DirLogs, Name_a, "EACCES", TextErrorBoom),
          File(DirLogs, Name_b, "none", TextLower),
          File(DirLogs, Name_b, "EIO", TextGood),
          Directory(DirLogs, Name_b),
          File(DirLogs, Name_ERROR, "none", TextGood),
          File(DirLogs, Name_ERROR, "EACCES", TextGood),
          File(DirLogs, Name_hidden, "none", TextErrorBoom),
          File(DirLogs, Name_txt, "none", TextErrorBoom),
          File(DirSub, Name_a, "none", TextErrorBoom)}

PathOf(e) == Join(e.parent, e.name)

FileSystems ==
    {f \in SUBSET Candidates :
        /\ Cardinality(f) <= MaxEntries
        /\ \A e1, e2 \in f : PathOf(e1) = PathOf(e2) => e1 = e2}

OutputFiles == {"Build.xml", "Test.xml", "Done.xml"}

Absent == [st |-> "absent", by |-> "nobody", body |-> <<>>]
Earlier == [st |-> "full", by |-> "earlier_run", body |-> <<>>]
Full(body) == [st |-> "full", by |-> "this_run", body |-> body]
Truncated == [st |-> "partial", by |-> "this_run", body |-> <<>>]

\* What open(name, "w") followed by write() can do to the file.
WriteOutcomes == {"ok", "open_fails", "write_fails"}

\* The file after the attempt: open() failing leaves it as it was, write()
\* failing leaves the file that open() truncated.
Written(old, body, outcome) ==
    CASE outcome = "ok" -> Full(body)
      [] outcome = "open_fails" -> old
      [] outcome = "write_fails" -> Truncated

----------------------------------------------------------------------------
(* The command line                                                        *)

Options == {"log_dir", "build_stamp", "site_name", "build_name", "build_id"}
Required == {"log_dir", "build_stamp", "site_name", "build_id"}

GivenBuildName == <<"b", "n">>

OptionValues(o) ==
    CASE o = "log_dir" -> {DirLogs, DirNone}
      [] o = "build_name" -> {<<>>, GivenBuildName}
      [] o = "build_stamp" -> {<<"s">>}
      [] o = "site_name" -> {<<"p">>}
      [] o = "build_id" -> {<<"7">>}

ArgvSet ==
    UNION {{a \in [S -> UNION {OptionValues(o) : o \in Options}] :
                \A o \in S : a[o] \in OptionValues(o)} : S \in SUBSET Options}

NoArgs == [parsed |-> FALSE]
\* No mapping yet.
NoInfo == [k \in {} |-> ""]

----------------------------------------------------------------------------
(* get_system_info                                                         *)

PsutilModes == {"ok", "ImportError", "raises", "None"}

HostInfoKeys ==
    {"OSName", "Hostname", "OSRelease", "OSVersion", "OSPlatform", "Is64Bits",
     "NumberOfLogicalCPU", "NumberOfPhysicalCPU", "TotalPhysicalMemory",
     "VendorString", "VendorID", "FamilyID", "ModelID", "ProcessorCacheSize",
     "ProcessorClockFrequency"}

HostInfo(logical, physical, memory) ==
    [OSName |-> "Linux", Hostname |-> "node", OSRelease |-> "6.1",
     OSVersion |-> "#1", OSPlatform |-> "x86_64", Is64Bits |-> "1",
     NumberOfLogicalCPU |-> logical, NumberOfPhysicalCPU |-> physical,
     TotalPhysicalMemory |-> memory,
     VendorString |-> "Unknown", VendorID |-> "Unknown", FamilyID |-> "0",
     ModelID |-> "0", ProcessorCacheSize |-> "0",
     ProcessorClockFrequency |-> "0"]

\* The except clause of get_system_info: the one exception it turns into
\* the fallback values.
Catches(mode) == mode = "ImportError"

\* The process stops with a traceback out of function fn.
Abort(fn) ==
    /\ pc' = "exit"
    /\ exit_status' = "1"
    /\ raised_in' = fn

get_system_info ==
    /\ pc = "get_system_info"
    /\ IF Catches(psutil)
       THEN /\ sys_info' = HostInfo("1", "1", "1024")
            /\ pc' = "generate_build_xml"
            /\ UNCHANGED <<exit_status, raised_in>>
       ELSE IF psutil = "raises"
       THEN /\ Abort("get_system_info")
            /\ UNCHANGED sys_info
       ELSE /\ sys_info' = IF psutil = "None"
                           THEN HostInfo("None", "None", "16384")
                           ELSE HostInfo("8", "4", "16384")
            /\ pc' = "generate_build_xml"
            /\ UNCHANGED <<exit_status, raised_in>>
    /\ UNCHANGED <<argv, fs, psutil, cwd0, cwd, args, log_files, tests,
                   test_list, stdout, text, sanitized, resanitized>>

----------------------------------------------------------------------------
(* main: parse_args and the default build name                             *)

\* A parser whose --build-id lacks required=True.
RequiredUnlessBuildId == Required \ {"build_id"}

\* The options add_argument declares with required=True.
RequiredOptions == Required

\* The value parse_args gives an option: None when it is absent.
Opt(o) == IF o \in DOMAIN argv THEN argv[o] ELSE <<>>

parse_args ==
    /\ pc = "parse_args"
    /\ IF RequiredOptions \subseteq DOMAIN argv
       THEN /\ args' =
                 [parsed |-> TRUE,
                  log_dir |-> Opt("log_dir"),
                  build_stamp |-> Opt("build_stamp"),
                  site_name |-> Opt("site_name"),
                  build_id |-> Opt("build_id"),
                  build_name |->
                      IF Opt("build_name") # <<>> THEN Opt("build_name")
                      ELSE basename(normpath(Opt("log_dir")))]
            /\ pc' = "get_system_info"
            /\ UNCHANGED exit_status
       ELSE /\ pc' = "exit"
            /\ exit_status' = "2"
            /\ UNCHANGED args
    /\ UNCHANGED <<argv, fs, psutil, cwd0, cwd, sys_info, log_files, tests,
                   test_list, stdout, raised_in, text, sanitized, resanitized>>

----------------------------------------------------------------------------
(* The generators                                                          *)

\* The attributes both reports put on the Site element.
SiteAttributes ==
    [BuildName |-> args.build_name, BuildStamp |-> args.build_stamp,
     Name |-> args.site_name, Generator |-> "ctest-3.24.2",
     CompilerName |-> "", CompilerVersion |-> "", host |-> sys_info]

\* A generator that swallows the exception of a failed write and returns.
WriteAndContinue(fn, file, body, outcome, line, next_pc) ==
    /\ cwd' = [cwd EXCEPT ![file] = Written(cwd[file], body, outcome)]
    /\ stdout' = IF outcome = "ok" THEN Append(stdout, line) ELSE stdout
    /\ pc' = next_pc
    /\ exit_status' = IF next_pc = "exit" THEN "0" ELSE exit_status
    /\ UNCHANGED raised_in

\* A generator's last statements: write the file, print the confirmation.
\* An exception out of open() or write() ends the process.
WriteAndReport(fn, file, body, outcome, line, next_pc) ==
    /\ cwd' = [cwd EXCEPT ![file] = Written(cwd[file], body, outcome)]
    /\ IF outcome = "ok"
       THEN /\ stdout' = Append(stdout, line)
            /\ pc' = next_pc
            /\ exit_status' = IF next_pc = "exit" THEN "0" ELSE exit_status
            /\ UNCHANGED raised_in
       ELSE /\ Abort(fn)
            /\ UNCHANGED stdout

generate_build_xml ==
    /\ pc = "generate_build_xml"
    /\ \E outcome \in WriteOutcomes :
          WriteAndReport("generate_build_xml", "Build.xml",
              [Site |-> SiteAttributes, BuildCommand |-> "polaris_scan",
               ElapsedMinutes |-> "0"],
              outcome, "Generated Build.xml", "generate_test_xml")
    /\ UNCHANGED <<argv, fs, psutil, cwd0, args, sys_info, log_files, tests,
                   test_list, text, sanitized, resanitized>>

\* fnmatch of a name against the pattern *.log.
MatchesLogPattern(name) == EndsWith(name, LogExt)

\* glob's rule for names that start with a dot: a pattern that does not
\* start with a dot does not match them.
IsHidden(name) == name # <<>> /\ name[1] = "."

\* A glob that descends into subdirectories and takes hidden names too.
GlobEveryName(entries, log_dir) ==
    {PathOf(e) : e \in {x \in entries : MatchesLogPattern(x.name)}}

\* The set of paths glob.glob(os.path.join(log_dir, "*.log")) returns: the
\* entries of log_dir itself, of any kind, whose name matches and is not
\* hidden.  A directory that does not exist has no entries.
Glob(entries, log_dir) ==
    {PathOf(e) : e \in {x \in entries :
        /\ x.parent = log_dir
        /\ MatchesLogPattern(x.name) /\ ~IsHidden(x.name)}}

\* The orders in which the file system may return a set of paths.
Orders(S) ==
    {p \in [1..Cardinality(S) -> S] :
        \A i, j \in 1..Cardinality(S) : p[i] = p[j] => i = j}

RECURSIVE Insert(_, _)
Insert(x, sorted) ==
    IF sorted = <<>> THEN <<x>>
    ELSE IF StrLess(x, Head(sorted)) THEN <<x>> \o sorted
    ELSE <<Head(sorted)>> \o Insert(x, Tail(sorted))

\* A list left in the order the file system returned it.
Unsorted(l) == l

\* list.sort() on a list of strings.
RECURSIVE Sort(_)
Sort(l) == IF l = <<>> THEN <<>> ELSE Insert(Head(l), Sort(Tail(l)))

EntryAt(path) == CHOOSE e \in fs : PathOf(e) = path

\* open() or read() of the entry raises.
ReadFails(e) == e.kind = "dir" \/ e.err # "none"

\* str(e) of the exception: open() names the path, read() does not.
ErrorPrefix ==
    <<"E", "r", "r", "o", "r", " ", "r", "e", "a", "d", "i", "n", "g", " ",
      "f", "i", "l", "e", ":", " ">>
EACCES_msg ==
    <<"[", "E", "r", "r", "n", "o", " ", "1", "3", "]", " ", "P", "e", "r",
      "m", "i", "s", "s", "i", "o", "n", " ", "d", "e", "n", "i", "e", "d",
      ":", " ">>
EISDIR_msg ==
    <<"[", "E", "r", "r", "n", "o", " ", "2", "1", "]", " ", "I", "s", " ",
      "a", " ", "d", "i", "r", "e", "c", "t", "o", "r", "y", ":", " ">>
EIO_msg ==
    <<"[", "E", "r", "r", "n", "o", " ", "5", "]", " ", "I", "n", "p", "u",
      "t", "/", "o", "u", "t", "p", "u", "t", " ", "e", "r", "r", "o", "r">>

ExceptionText(e) ==
    CASE e.kind = "dir" -> EISDIR_msg \o Repr(PathOf(e))
      [] e.kind = "file" /\ e.err = "EACCES" -> EACCES_msg \o Repr(PathOf(e))
      [] e.kind = "file" /\ e.err = "EIO" -> EIO_msg

\* The text the except clause puts in place of the content.
Placeholder(e) == ErrorPrefix \o ExceptionText(e)

\* A try statement that forgets to sanitize.
ContentUnsanitized(e) ==
    IF ReadFails(e) THEN Placeholder(e) ELSE e.content

\* The try statement: the content read from the file (ASCII text, which
\* decoding leaves as it is) and sanitized, or the placeholder.
ContentOf(e) ==
    IF ReadFails(e) THEN Placeholder(e) ELSE strip_ansi_codes(e.content)

StatusOf(content) ==
    IF Contains(content, ErrorWord) THEN "failed" ELSE "passed"

\* One pass of the loop over log_files: the dictionary appended to tests.
TestOf(path) ==
    LET content == ContentOf(EntryAt(path))
    IN  [name |-> basename(path), status |-> StatusOf(content),
         output |-> content, path |-> path]

\* A loop whose except clause skips the file.
TestsSkippingUnreadable(files) ==
    LET readable == SelectSeq(files, LAMBDA f : ~ReadFails(EntryAt(f)))
    IN  [i \in 1..Len(readable) |-> TestOf(readable[i])]

\* The loop over log_files: one dictionary per file, in the order of the list.
TestsFor(files) == [i \in 1..Len(files) |-> TestOf(files[i])]

\* The Test element built from a dictionary of tests.
TestElement(t) ==
    [Status |-> t.status, Name |-> t.name,
     Path |-> DotSlash \o args.log_dir,
     FullName |-> DotSlash \o args.log_dir \o Slash \o t.name,
     FullCommandLine |-> CatPrefix \o t.path,
     ExecutionTime |-> "1.0", CompletionStatus |-> "Completed",
     Value |-> t.output]

NoLogsWarning == "Warning: No log files found"

\* A generator that prints no warning.
WarnNever(files, out) == out

\* if not log_files: print the warning.
Warn(files, out) ==
    IF files = <<>> THEN Append(out, NoLogsWarning) ELSE out

generate_test_xml ==
    /\ pc = "generate_test_xml"
    /\ \E order \in Orders(Glob(fs, args.log_dir)), outcome \in WriteOutcomes :
          LET files == Sort(order)
              warned == Warn(files, stdout)
              dicts == TestsFor(files)
              list == [i \in 1..Len(dicts) |->
                          DotSlash \o args.log_dir \o Slash \o dicts[i].name]
          IN  /\ log_files' = files
              /\ tests' = dicts
              /\ test_list' = list
              /\ cwd' = [cwd EXCEPT !["Test.xml"] =
                            Written(cwd["Test.xml"],
                                [Site |-> SiteAttributes, TestList |-> list,
                                 Test |-> [i \in 1..Len(dicts) |->
                                              TestElement(dicts[i])]],
                                outcome)]
              /\ IF outcome = "ok"
                 THEN /\ stdout' = Append(warned, "Generated Test.xml")
                      /\ pc' = "generate_done_xml"
                      /\ UNCHANGED <<exit_status, raised_in>>
                 ELSE /\ Abort("generate_test_xml")
                      /\ stdout' = warned
    /\ UNCHANGED <<argv, fs, psutil, cwd0, args, sys_info, text, sanitized,
                   resanitized>>

generate_done_xml ==
    /\ pc = "generate_done_xml"
    /\ \E outcome \in WriteOutcomes :
          WriteAndReport("generate_done_xml", "Done.xml",
              [buildId |-> args.build_id],
              outcome, "Generated Done.xml", "exit")
    /\ UNCHANGED <<argv, fs, psutil, cwd0, args, sys_info, log_files, tests,
                   test_list, text, sanitized, resanitized>>

----------------------------------------------------------------------------
(* main                                                                    *)

\* The command lines that give every required option and no build name.
CompleteArgv ==
    {a \in ArgvSet : DOMAIN a = Required}

\* The inputs of one invocation.  Every command line is run against the
\* directories of at most one entry, and every directory against the
\* command lines of CompleteArgv.
Init ==
    /\ argv \in ArgvSet
    /\ fs \in FileSystems
    /\ argv \in CompleteArgv \/ Cardinality(fs) = 0
          \/ fs = {File(DirLogs, Name_a, "none", TextErrorBoom)}
    /\ psutil \in PsutilModes
    /\ cwd0 \in {[f \in OutputFiles |-> Absent], [f \in OutputFiles |-> Earlier]}
    /\ cwd = cwd0
    /\ pc = "parse_args"
    /\ args = NoArgs
    /\ sys_info = NoInfo
    /\ log_files = <<>> /\ tests = <<>> /\ test_list = <<>>
    /\ stdout = <<>>
    /\ exit_status = "running"
    /\ raised_in = "none"
    /\ text = <<>> /\ sanitized = <<>> /\ resanitized = <<>>

Next ==
    \/ parse_args
    \/ get_system_info
    \/ generate_build_xml
    \/ generate_test_xml
    \/ generate_done_xml

Spec == Init /\ [][Next]_vars

----------------------------------------------------------------------------
(* Properties of one invocation                                            *)

\* The file was opened for writing by this run.
Touched(f) == cwd[f].by = "this_run"

\* The file was written completely by this run.
WrittenNow(f) == cwd[f].st = "full" /\ cwd[f].by = "this_run"

\* generate_test_xml has run (to its end or to the exception of its write).
TestStepRan ==
    \/ pc = "generate_done_xml"
    \/ pc = "exit" /\ exit_status = "0"
    \/ pc = "exit" /\ raised_in \in {"generate_test_xml", "generate_done_xml"}

\* The entries the code turned into test records, by path.
Discovered == {tests[i].path : i \in 1..Len(tests)}

\* C1 as stated: the outputs are written in the order Build.xml, Test.xml,
\* Done.xml; a failed write ends the run at once, the outputs written before
\* it stay, and the outputs after it are absent from the working directory.
C1_AsStated ==
    /\ Touched("Test.xml") => WrittenNow("Build.xml")
    /\ Touched("Done.xml") => WrittenNow("Test.xml")
    /\ raised_in # "none" => pc = "exit"
    /\ raised_in = "generate_build_xml" =>
          cwd["Test.xml"].st = "absent" /\ cwd["Done.xml"].st = "absent"
    /\ raised_in = "generate_test_xml" =>
          WrittenNow("Build.xml") /\ cwd["Done.xml"].st = "absent"
    /\ raised_in = "generate_done_xml" =>
          WrittenNow("Build.xml") /\ WrittenNow("Test.xml")

\* C1 amended: the outputs are written in the order Build.xml, Test.xml,
\* Done.xml; a failed write ends the run at once, the outputs written before
\* it stay, no later generator runs, and the outputs after it are not written
\* by this run: each is left exactly as it was when the run started (absent
\* only if it was absent then).
C1_Theorem ==
    /\ Touched("Test.xml") => WrittenNow("Build.xml")
    /\ Touched("Done.xml") => WrittenNow("Test.xml")
    /\ raised_in # "none" => pc = "exit" /\ exit_status = "1"
    /\ raised_in = "generate_build_xml" =>
          /\ cwd["Test.xml"] = cwd0["Test.xml"]
          /\ cwd["Done.xml"] = cwd0["Done.xml"]
          /\ stdout = <<>> /\ tests = <<>> /\ test_list = <<>>
    /\ raised_in = "generate_test_xml" =>
          /\ WrittenNow("Build.xml")
          /\ cwd["Done.xml"] = cwd0["Done.xml"]
          /\ \A i \in 1..Len(stdout) : stdout[i] # "Generated Done.xml"
    /\ raised_in = "generate_done_xml" =>
          WrittenNow("Build.xml") /\ WrittenNow("Test.xml")

\* The write of Test.xml failed in a directory that held the outputs of an
\* earlier run: Build.xml is this run's, Done.xml is still the earlier one.
C1_Witness ==
    /\ raised_in = "generate_test_xml"
    /\ WrittenNow("Build.xml")
    /\ cwd0["Done.xml"] = Earlier
    /\ cwd["Done.xml"] = Earlier

\* C2 as stated: the status of every discovered log file is failed exactly
\* when ERROR occurs in the content of the file after the escape sequences
\* are stripped.
C2_AsStated ==
    TestStepRan =>
        \A i \in 1..Len(tests) :
            tests[i].status = "failed" <=>
                Contains(strip_ansi_codes(EntryAt(tests[i].path).content),
                         ErrorWord)

\* C2 amended: the status of every test record is failed exactly when ERROR
\* occurs in the record's embedded output: for a file that was read, that is
\* the content of the file after the escape sequences are stripped (never the
\* raw content); for a discovered entry that could not be read, it is the
\* diagnostic placeholder, whatever the content of the file.
C2_Theorem ==
    TestStepRan =>
        \A i \in 1..Len(tests) :
            LET e == EntryAt(tests[i].path)
                shown == IF ReadFails(e) THEN Placeholder(e)
                         ELSE strip_ansi_codes(e.content)
            IN  /\ tests[i].output = shown
                /\ tests[i].status \in {"failed", "passed"}
                /\ tests[i].status = "failed" <=> Contains(shown, ErrorWord)
                /\ WrittenNow("Test.xml") =>
                      /\ cwd["Test.xml"].body.Test[i].Status = tests[i].status
                      /\ cwd["Test.xml"].body.Test[i].Value = shown

\* Test.xml holds a failed record for a file whose raw content does not
\* contain ERROR and whose sanitized content does.
C2_Witness ==
    /\ WrittenNow("Test.xml")
    /\ \E i \in 1..Len(tests) :
          /\ EntryAt(tests[i].path).content = TextJoined
          /\ ~Contains(TextJoined, ErrorWord)
          /\ cwd["Test.xml"].body.Test[i].Status = "failed"

\* C3: unreadable log files never abort generate_test_xml: each discovered
\* entry, readable or not, gets exactly one TestList entry and exactly one
\* Test record; the record of an unreadable one embeds the diagnostic
\* placeholder, the record of a readable one its sanitized content; and
\* Test.xml is written with all of them unless the write itself fails.
C3_Theorem ==
    TestStepRan =>
        /\ Len(tests) = Len(log_files)
        /\ Len(test_list) = Len(log_files)
        /\ \A p \in Glob(fs, args.log_dir) :
              /\ Cardinality({i \in 1..Len(tests) : tests[i].path = p}) = 1
              /\ Cardinality({i \in 1..Len(test_list) :
                    test_list[i] =
                        DotSlash \o args.log_dir \o Slash \o basename(p)}) = 1
              /\ \A i \in 1..Len(tests) : tests[i].path = p =>
                    tests[i].output =
                        IF ReadFails(EntryAt(p)) THEN Placeholder(EntryAt(p))
                        ELSE strip_ansi_codes(EntryAt(p).content)
        /\ pc = "generate_done_xml" =>
              /\ WrittenNow("Test.xml")
              /\ cwd["Test.xml"].body.TestList = test_list
              /\ Len(cwd["Test.xml"].body.Test) = Len(tests)
        /\ raised_in = "generate_test_xml" => ~WrittenNow("Test.xml")

\* Test.xml was written for a directory that holds a file that cannot be
\* opened next to one that can.
C3_Witness ==
    /\ WrittenNow("Test.xml")
    /\ \E i, j \in 1..Len(tests) :
          /\ EntryAt(tests[i].path).err = "EACCES"
          /\ cwd["Test.xml"].body.Test[i].Value = Placeholder(EntryAt(tests[i].path))
          /\ ~ReadFails(EntryAt(tests[j].path))

\* C4 as stated: get_system_info never fails; whatever psutil does, it
\* returns a mapping with the fixed key set, and when psutil is missing or
\* raises, the CPU counts and the memory are the fallbacks 1, 1 and 1024.
C4_AsStated ==
    (args.parsed /\ pc # "get_system_info") =>
        /\ raised_in # "get_system_info"
        /\ DOMAIN sys_info = HostInfoKeys
        /\ psutil \in {"ImportError", "raises"} =>
              /\ sys_info.NumberOfLogicalCPU = "1"
              /\ sys_info.NumberOfPhysicalCPU = "1"
              /\ sys_info.TotalPhysicalMemory = "1024"

\* C5: the TestList entries and the Test records follow the lexicographic
\* order of the log file names, whatever order the file system returned them
\* in, with one entry and one record per discovered file and both sequences
\* in the same order.
C5_Theorem ==
    TestStepRan =>
        /\ Len(tests) = Cardinality(Glob(fs, args.log_dir))
        /\ Len(test_list) = Len(tests)
        /\ Discovered = Glob(fs, args.log_dir)
        /\ \A i, j \in 1..Len(tests) :
              i < j => StrLess(tests[i].name, tests[j].name)
        /\ \A i \in 1..Len(tests) :
              /\ tests[i].name = basename(tests[i].path)
              /\ test_list[i] =
                    DotSlash \o args.log_dir \o Slash \o tests[i].name
        /\ WrittenNow("Test.xml") =>
              /\ cwd["Test.xml"].body.TestList = test_list
              /\ \A i \in 1..Len(tests) :
                    cwd["Test.xml"].body.Test[i].Name = tests[i].name

\* Test.xml lists three log files, an upper-case name before the lower-case
\* ones.
C5_Witness ==
    /\ WrittenNow("Test.xml")
    /\ Len(cwd["Test.xml"].body.Test) = 3
    /\ cwd["Test.xml"].body.Test[1].Name = Name_ERROR
    /\ cwd["Test.xml"].body.Test[3].Name = Name_b

\* C6: a log directory that is empty, missing or without a matching file is
\* not an error: generate_test_xml prints the warning, the Test.xml it writes
\* has an empty test list and no test record, the run goes on to Done.xml,
\* and a run in which no write fails ends as a success with the three
\* outputs generated.
C6_Theorem ==
    (args.parsed /\ Glob(fs, args.log_dir) = {}) =>
        /\ TestStepRan =>
              /\ \E i \in 1..Len(stdout) : stdout[i] = NoLogsWarning
              /\ tests = <<>> /\ test_list = <<>>
        /\ raised_in = "generate_test_xml" => ~WrittenNow("Test.xml")
        /\ (TestStepRan /\ raised_in # "generate_test_xml") =>
              /\ WrittenNow("Test.xml")
              /\ cwd["Test.xml"].body.TestList = <<>>
              /\ cwd["Test.xml"].body.Test = <<>>
              /\ pc = "generate_done_xml" \/ exit_status = "0"
                    \/ raised_in = "generate_done_xml"
        /\ pc = "generate_done_xml" => ENABLED generate_done_xml
        /\ (pc = "exit" /\ raised_in = "none") =>
              /\ exit_status = "0"
              /\ \A f \in OutputFiles : WrittenNow(f)
              /\ stdout = <<"Generated Build.xml", NoLogsWarning,
                            "Generated Test.xml", "Generated Done.xml">>

\* A run over a log directory that holds only a hidden file ended as a
\* success.
C6_Witness ==
    /\ exit_status = "0"
    /\ args.log_dir = DirLogs
    /\ fs # {}
    /\ Glob(fs, args.log_dir) = {}
    /\ cwd["Test.xml"].body.Test = <<>>

\* A run over a log directory that does not exist ended as a success.
C6_WitnessMissing ==
    /\ exit_status = "0"
    /\ args.log_dir = DirNone
    /\ cwd["Test.xml"].body.Test = <<>>

\* C7: when a required option (log directory, build stamp, site name, build
\* identifier) is missing, the run fails before any output: no output file is
\* created or modified and no host information is collected.
C7_Theorem ==
    ~(Required \subseteq DOMAIN argv) =>
        /\ cwd = cwd0
        /\ DOMAIN sys_info = {}
        /\ stdout = <<>>
        /\ pc \in {"parse_args", "exit"}
        /\ pc = "exit" => exit_status = "2"

\* The run ended on a command line that lacks only the build identifier, in
\* a directory that held earlier outputs.
C7_Witness ==
    /\ pc = "exit"
    /\ Required \ DOMAIN argv = {"build_id"}
    /\ exit_status = "2"
    /\ cwd["Build.xml"] = Earlier

\* C8 as stated: the discovered set is exactly the files directly inside the
\* log directory whose name ends in .log, names that begin with a dot
\* included, and nothing that is not a file.
C8_AsStated ==
    TestStepRan =>
        Discovered =
            {PathOf(e) : e \in {x \in fs :
                /\ x.parent = args.log_dir
                /\ x.kind = "file"
                /\ EndsWith(x.name, LogExt)}}

\* C8 amended: the discovered set is exactly the entries directly inside the
\* log directory, files and directories alike, whose name ends in .log and
\* does not begin with a dot; no entry of a subdirectory is discovered.
C8_Theorem ==
    TestStepRan =>
        Discovered =
            {PathOf(e) : e \in {x \in fs :
                /\ x.parent = args.log_dir
                /\ EndsWith(x.name, LogExt)
                /\ x.name[1] # "."}}

\* A directory named like a log file was discovered, a hidden log file and a
\* log file one level down were not.
C8_Witness ==
    /\ WrittenNow("Test.xml")
    /\ \E e \in fs : e.kind = "dir" /\ PathOf(e) \in Discovered
    /\ \E e \in fs : e.name = Name_hidden /\ PathOf(e) \notin Discovered
    /\ \E e \in fs : e.parent = DirSub /\ PathOf(e) \notin Discovered

\* C10 as stated: a log file that cannot be opened or read always yields a
\* test record with status passed, whatever its name.
C10_AsStated ==
    TestStepRan =>
        \A i \in 1..Len(tests) :
            ReadFails(EntryAt(tests[i].path)) => tests[i].status = "passed"

----------------------------------------------------------------------------
(* The sanitization specification: strip_ansi_codes applied to every text  *)
(* of at most MaxLen characters over StripAlphabet, and then to its own    *)
(* result.                                                                 *)

StripAlphabet == {ESC, "[", "0", " ", "m", "E"}

RECURSIVE TextsUpTo(_)
TextsUpTo(n) ==
    IF n = 0 THEN {<<>>}
    ELSE LET shorter == TextsUpTo(n - 1)
         IN  shorter \cup {Append(t, c) : t \in shorter, c \in StripAlphabet}

InitStrip ==
    /\ text \in TextsUpTo(MaxLen)
    /\ sanitized = <<>>
    /\ resanitized = <<>>
    /\ pc = "read"
    /\ argv = <<>> /\ fs = {} /\ psutil = "ok"
    /\ cwd0 = <<>> /\ cwd = <<>>
    /\ args = NoArgs /\ sys_info = NoInfo
    /\ log_files = <<>> /\ tests = <<>> /\ test_list = <<>>
    /\ stdout = <<>> /\ exit_status = "running" /\ raised_in = "none"

Sanitize ==
    /\ pc = "read"
    /\ sanitized' = strip_ansi_codes(text)
    /\ pc' = "sanitized"
    /\ UNCHANGED <<argv, fs, psutil, cwd0, cwd, args, sys_info, log_files,
                   tests, test_list, stdout, exit_status, raised_in, text,
                   resanitized>>

SanitizeAgain ==
    /\ pc = "sanitized"
    /\ resanitized' = strip_ansi_codes(sanitized)
    /\ pc' = "resanitized"
    /\ UNCHANGED <<argv, fs, psutil, cwd0, cwd, args, sys_info, log_files,
                   tests, test_list, stdout, exit_status, raised_in, text,
                   sanitized>>

NextStrip == Sanitize \/ SanitizeAgain

SpecStrip == InitStrip /\ [][NextStrip]_vars

\* Every ESC of the text begins a match of the pattern.
EveryEscBeginsMatch(t) ==
    \A i \in 1..Len(t) : t[i] = ESC => MatchLen(t, i) > 0

\* C9 as stated: the result of strip_ansi_codes never contains a match of the
\* pattern, and stripping it a second time changes nothing.
C9_AsStated ==
    /\ pc \in {"sanitized", "resanitized"} => ~HasMatch(sanitized)
    /\ pc = "resanitized" => resanitized = sanitized

\* C9 amended: strip_ansi_codes removes every escape sequence that is present
\* in its input; its result matches the pattern only if the input holds an
\* ESC that begins no sequence there, so whenever every ESC of the input
\* begins a sequence the result contains no match and stripping it a second
\* time changes nothing.
C9_Theorem ==
    /\ pc \in {"sanitized", "resanitized"} =>
          (HasMatch(sanitized) =>
              \E i \in 1..Len(text) : text[i] = ESC /\ MatchLen(text, i) = 0)
    /\ (pc = "resanitized" /\ EveryEscBeginsMatch(text)) =>
          resanitized = sanitized

\* A sequence was removed from the middle of a text and the characters on
\* its two sides were joined.
C9_Witness ==
    /\ pc = "resanitized"
    /\ EveryEscBeginsMatch(text)
    /\ Len(text) = 4 /\ text[1] # ESC /\ MatchLen(text, 2) = 2
    /\ sanitized = <<text[1], text[4]>>
    /\ resanitized = sanitized

====
